---- MODULE Spec2Model ----
(***************************************************************************)
(* Model of document_metadata_extractor.py: the extension dispatcher, the  *)
(* seven format extractors, the metadata hasher, the SQLite persistence    *)
(* layer and the Tk front-end with its background extraction workers.      *)
(*                                                                         *)
(* Representation.  A Python str is a sequence of string tokens: a path is *)
(* a sequence of one-character tokens, a literal of the source is a single *)
(* token, and an f-string is the concatenation of its pieces.  A Python    *)
(* dict is the sequence of its [k, v] entries in insertion order.  A value *)
(* carries its Python type in the field t.                                 *)
(***************************************************************************)
EXTENDS Naturals, Sequences, FiniteSets, TLC

\* ------------------------------------------------------------------------
\* Python values
\* ------------------------------------------------------------------------

Str(s) == [t |-> "str", v |-> s]

Int(n) == [t |-> "int", v |-> n]

List(l) == [t |-> "list", v |-> l]

None == [t |-> "null", v |-> <<>>]

\* A dict held where None may be held instead (an optional attribute).
Dict(items) == [t |-> "dict", v |-> items]

\* str(x) for the values the extractors stringify: str(None) is "None".
PyStr(x) == IF x = None THEN Str(<<"None">>) ELSE x

\* bool(x) for None, a dict, a list or a str: empty is false.
Truthy(x) == x.t # "null" /\ x.v # <<>>

EmptyDict == <<>>

HasKey(d, k) == \E i \in DOMAIN d : d[i].k = k

DictGet(d, k) == d[CHOOSE i \in DOMAIN d : d[i].k = k].v

\* d[k] = v: an existing key keeps its position, a new key goes last.
DictSet(d, k, v) ==
    IF HasKey(d, k)
    THEN [i \in DOMAIN d |-> IF d[i].k = k THEN [k |-> k, v |-> v] ELSE d[i]]
    ELSE Append(d, [k |-> k, v |-> v])

DictKeys(d) == { d[i].k : i \in DOMAIN d }

\* The mapping a dict denotes, whatever its insertion order.
DictItems(d) == { d[i] : i \in DOMAIN d }

Min(a, b) == IF a < b THEN a ELSE b

\* s[:n]
SliceTo(s, n) == SubSeq(s, 1, Min(n, Len(s)))

\* ------------------------------------------------------------------------
\* str.lower, os.path.splitext, os.path.basename
\* ------------------------------------------------------------------------

UpperLetters ==
    <<"A","B","C","D","E","F","G","H","I","J","K","L","M",
      "N","O","P","Q","R","S","T","U","V","W","X","Y","Z">>

LowerLetters ==
    <<"a","b","c","d","e","f","g","h","i","j","k","l","m",
      "n","o","p","q","r","s","t","u","v","w","x","y","z">>

LowerChar(c) ==
    IF \E i \in DOMAIN UpperLetters : UpperLetters[i] = c
    THEN LowerLetters[CHOOSE i \in DOMAIN UpperLetters : UpperLetters[i] = c]
    ELSE c

\* The mutant of str_lower: the extension is looked up as written.
str_lower_kept(s) == s

\* extension.lower() of line 39
str_lower(s) == [i \in DOMAIN s |-> LowerChar(s[i])]

\* p.rfind(c), counted from 1; 0 where Python gives -1.
RFind(p, c) ==
    IF \E i \in DOMAIN p : p[i] = c
    THEN CHOOSE i \in DOMAIN p : p[i] = c /\ \A j \in DOMAIN p : p[j] = c => j <= i
    ELSE 0

\* os.path.splitext(p)[1]: the text from the last dot of the last path
\* component, unless that component has only leading dots before it.
splitext_ext(p) ==
    LET sepIndex == RFind(p, "/")
        dotIndex == RFind(p, ".")
    IN  IF dotIndex > sepIndex
           /\ \E k \in (sepIndex + 1)..(dotIndex - 1) : p[k] # "."
        THEN SubSeq(p, dotIndex, Len(p))
        ELSE <<>>

\* os.path.basename(p)
basename(p) == SubSeq(p, RFind(p, "/") + 1, Len(p))

\* ------------------------------------------------------------------------
\* Files on disk, as the format libraries see them.  exists: open() finds
\* the file; parses: the format's reader accepts its bytes.
\* ------------------------------------------------------------------------

MaxPages == 2

MaxParagraphs == 2

MaxCsvRows == 2

MaxParts == 2

\* Every sequence over S of length 0..n
SeqsUpTo(S, n) == UNION { [1..k -> S] : k \in 0..n }

SampleText == <<"a", "b", "c">>

MissingFile(fmt) == [fmt |-> fmt, exists |-> FALSE, parses |-> FALSE]

CorruptFile(fmt) == [fmt |-> fmt, exists |-> TRUE, parses |-> FALSE]

\* A page: extract_text() returns text or raises.
PdfPages == { [ok |-> TRUE, text |-> SampleText], [ok |-> TRUE, text |-> <<>>],
              [ok |-> FALSE, text |-> <<>>] }

\* pdf.metadata: None, an empty dictionary, or /Key entries.
PdfInfos ==
    { None,
      Dict(<<>>),
      Dict(<< [k |-> <<"/", "Title">>, v |-> Str(<<"Report">>)] >>),
      Dict(<< [k |-> <<"/", "Author">>, v |-> Str(<<"Ann">>)],
              [k |-> <<"Producer">>, v |-> Str(<<"LibX">>)] >>) }

PdfFiles ==
    { MissingFile("pdf"), CorruptFile("pdf") } \cup
    { [fmt |-> "pdf", exists |-> TRUE, parses |-> TRUE, info |-> i,
       pagesOk |-> po, pages |-> ps] :
        i \in PdfInfos, po \in {TRUE}, ps \in SeqsUpTo(PdfPages, MaxPages) } \cup
    { [fmt |-> "pdf", exists |-> TRUE, parses |-> TRUE, info |-> None,
       pagesOk |-> FALSE, pages |-> <<>>] }

\* core_properties of a Word or PowerPoint package, workbook.properties of a
\* workbook: set, or left at the library's defaults.
CoreProps ==
    { [author |-> Str(<<"Ann">>), created |-> Str(<<"2024-01-02 03:04:05">>),
       last_modified_by |-> Str(<<"Bob">>), modified |-> Str(<<"2024-02-03 04:05:06">>),
       title |-> Str(<<"Report">>)],
      [author |-> Str(<<>>), created |-> None,
       last_modified_by |-> Str(<<>>), modified |-> None,
       title |-> Str(<<>>)] }

DocxFiles ==
    { MissingFile("docx"), CorruptFile("docx") } \cup
    { [fmt |-> "docx", exists |-> TRUE, parses |-> TRUE, props |-> p,
       paragraphs |-> ps] :
        p \in CoreProps, ps \in SeqsUpTo({SampleText, <<>>}, MaxParagraphs) }

XlsxFiles ==
    { MissingFile("xlsx"), CorruptFile("xlsx") } \cup
    { [fmt |-> "xlsx", exists |-> TRUE, parses |-> TRUE, sheetnames |-> sn,
       creator |-> p.author, created |-> p.created, modified |-> p.modified,
       lastModifiedBy |-> p.last_modified_by] :
        sn \in { <<Str(<<"Sheet1">>)>>, <<Str(<<"Sheet1">>), Str(<<"Data">>)>> },
        p \in CoreProps }

PptxFiles ==
    { MissingFile("pptx"), CorruptFile("pptx") } \cup
    { [fmt |-> "pptx", exists |-> TRUE, parses |-> TRUE, slides |-> n, props |-> p] :
        n \in 0..1, p \in CoreProps }

\* img._getexif(): the attribute is absent on image classes without EXIF
\* support; where present it returns None or a dict of tag id -> value.
ImageExifs ==
    { None,
      Dict(<<>>),
      Dict(<< [k |-> 271, v |-> Str(<<"Acme">>)],
              [k |-> 64000, v |-> Str(<<"raw">>)] >>) }

ImageFiles ==
    { MissingFile("image"), CorruptFile("image") } \cup
    { [fmt |-> "image", exists |-> TRUE, parses |-> TRUE, format |-> f,
       width |-> 4, height |-> 3, mode |-> Str(<<"RGB">>),
       hasGetExif |-> TRUE, exif |-> e] :
        f \in { Str(<<"JPEG">>), Str(<<"PNG">>) }, e \in ImageExifs } \cup
    { [fmt |-> "image", exists |-> TRUE, parses |-> TRUE, format |-> Str(<<"GIF">>),
       width |-> 4, height |-> 3, mode |-> Str(<<"P">>),
       hasGetExif |-> FALSE, exif |-> None] }

\* The headers of a message, and the content disposition of each part that
\* msg.walk() yields (the message itself first).
EmailHeaders ==
    { <<>>,
      << [k |-> <<"Subject">>, v |-> Str(<<"Hi">>)],
         [k |-> <<"From">>, v |-> Str(<<"a@x">>)],
         [k |-> <<"To">>, v |-> Str(<<"b@x">>)],
         [k |-> <<"Date">>, v |-> Str(<<"Mon, 1 Jan 2024">>)],
         [k |-> <<"Cc">>, v |-> Str(<<"c@x">>)] >> }

Dispositions == { None, Str(<<"attachment">>), Str(<<"inline">>) }

EmailFiles ==
    { MissingFile("eml"), CorruptFile("eml") } \cup
    { [fmt |-> "eml", exists |-> TRUE, parses |-> TRUE, headers |-> h,
       parts |-> <<None>> \o ps] :
        h \in EmailHeaders, ps \in SeqsUpTo(Dispositions, MaxParts) }

CsvRows == { <<>>, <<Str(<<"a">>)>>, <<Str(<<"a">>), Str(<<"b">>), Str(<<"c">>)>> }

\* The rows csv.reader yields; a file that does not decode is CorruptFile.
CsvFiles ==
    { MissingFile("csv"), CorruptFile("csv") } \cup
    { [fmt |-> "csv", exists |-> TRUE, parses |-> TRUE, rows |-> rs] :
        rs \in SeqsUpTo(CsvRows, MaxCsvRows) }

AllFiles ==
    PdfFiles \cup DocxFiles \cup XlsxFiles \cup PptxFiles \cup ImageFiles
    \cup EmailFiles \cup CsvFiles

\* ------------------------------------------------------------------------
\* The extractors.  The body of each try block either completes with the
\* metadata dict or raises with the dict filled so far; the except clause
\* turns what was raised into the extractor's return value.
\* ------------------------------------------------------------------------

PreviewLen == 200

Exc(cls, msg) == [cls |-> cls, msg |-> msg]

FileNotFoundError == Exc("FileNotFoundError", <<"[Errno 2] No such file or directory">>)

ParseError(fmt) == Exc("ParseError", <<"cannot read ", fmt>>)

IndexError == Exc("IndexError", <<"sequence index out of range">>)

AttributeError == Exc("AttributeError", <<"object has no attribute '_getexif'">>)

Completed(md) == [raised |-> FALSE, exc |-> Exc("", <<>>), md |-> md]

Raised(e, md) == [raised |-> TRUE, exc |-> e, md |-> md]

Return(value) == [kind |-> "return", value |-> value, exc |-> Exc("", <<>>)]

Raise(e) == [kind |-> "raise", value |-> EmptyDict, exc |-> e]

ErrorResult(msg) == DictSet(EmptyDict, <<"error">>, Str(msg))

\* The mutant of ExceptException: the dict filled before the failure is
\* returned as the result.
ExceptReturnsPartial(body, prefix) ==
    IF body.raised /\ body.md = EmptyDict
    THEN Return(ErrorResult(<<prefix>> \o body.exc.msg))
    ELSE Return(body.md)

\* The classes derived from Exception among those the bodies raise
ExceptionClasses == {"FileNotFoundError", "ParseError", "IndexError", "AttributeError"}

\* try: ... return metadata
\* except Exception as e: return {"error": f"<prefix>{str(e)}"}
ExceptException(body, prefix) ==
    IF ~body.raised THEN Return(body.md)
    ELSE IF body.exc.cls \in ExceptionClasses
    THEN Return(ErrorResult(<<prefix>> \o body.exc.msg))
    ELSE Raise(body.exc)

\* open(file_path) / the library's reader on a file of this format
Opened(f, fmt) ==
    IF ~f.exists THEN Raised(FileNotFoundError, EmptyDict)
    ELSE IF f.fmt # fmt \/ ~f.parses THEN Raised(ParseError(fmt), EmptyDict)
    ELSE Completed(EmptyDict)

\* for key, value in pdf.metadata.items(): metadata[clean_key] = str(value)
RECURSIVE pdf_info_loop(_, _)
pdf_info_loop(items, md) ==
    IF items = <<>> THEN md
    ELSE LET key == Head(items).k
             clean_key == IF key # <<>> /\ key[1] = "/" THEN Tail(key) ELSE key
         IN  pdf_info_loop(Tail(items), DictSet(md, clean_key, PyStr(Head(items).v)))

\* metadata['first_page_preview'] = pdf.pages[0].extract_text()[:200]
pdf_first_page(f, md) ==
    IF f.pages = <<>> THEN Raised(IndexError, md)
    ELSE IF ~f.pages[1].ok THEN Raised(ParseError("pdf"), md)
    ELSE Completed(DictSet(md, <<"first_page_preview">>,
                           Str(SliceTo(f.pages[1].text, PreviewLen))))

pdf_body(f) ==
    LET o == Opened(f, "pdf") IN
    IF o.raised THEN o
    ELSE LET md1 == IF Truthy(f.info) THEN pdf_info_loop(f.info.v, EmptyDict)
                    ELSE EmptyDict
         IN  IF ~f.pagesOk THEN Raised(ParseError("pdf"), md1)
             ELSE pdf_first_page(f, DictSet(md1, <<"page_count">>, Int(Len(f.pages))))

extract_pdf_metadata(f) ==
    ExceptException(pdf_body(f), "Failed to extract PDF metadata: ")

docx_body(f) ==
    LET o == Opened(f, "docx") IN
    IF o.raised THEN o
    ELSE LET md1 == DictSet(EmptyDict, <<"author">>, f.props.author)
             md2 == DictSet(md1, <<"created">>, PyStr(f.props.created))
             md3 == DictSet(md2, <<"last_modified_by">>, f.props.last_modified_by)
             md4 == DictSet(md3, <<"modified">>, PyStr(f.props.modified))
             md5 == DictSet(md4, <<"title">>, f.props.title)
             md6 == DictSet(md5, <<"paragraph_count">>, Int(Len(f.paragraphs)))
         IN  Completed(DictSet(md6, <<"text_preview">>,
                 IF f.paragraphs # <<>>
                 THEN Str(SliceTo(f.paragraphs[1], PreviewLen))
                 ELSE Str(<<>>)))

extract_docx_metadata(f) ==
    ExceptException(docx_body(f), "Failed to extract Word metadata: ")

xlsx_body(f) ==
    LET o == Opened(f, "xlsx") IN
    IF o.raised THEN o
    ELSE LET md1 == DictSet(EmptyDict, <<"sheet_names">>, List(f.sheetnames))
             md2 == DictSet(md1, <<"sheet_count">>, Int(Len(f.sheetnames)))
             md3 == DictSet(md2, <<"creator">>, f.creator)
             md4 == DictSet(md3, <<"created">>, PyStr(f.created))
             md5 == DictSet(md4, <<"modified">>, PyStr(f.modified))
         IN  Completed(DictSet(md5, <<"last_modified_by">>, f.lastModifiedBy))

extract_xlsx_metadata(f) ==
    ExceptException(xlsx_body(f), "Failed to extract Excel metadata: ")

pptx_body(f) ==
    LET o == Opened(f, "pptx") IN
    IF o.raised THEN o
    ELSE LET md1 == DictSet(EmptyDict, <<"slide_count">>, Int(f.slides))
             md2 == DictSet(md1, <<"author">>, f.props.author)
             md3 == DictSet(md2, <<"created">>, PyStr(f.props.created))
             md4 == DictSet(md3, <<"modified">>, PyStr(f.props.modified))
         IN  Completed(DictSet(md4, <<"title">>, f.props.title))

extract_pptx_metadata(f) ==
    ExceptException(pptx_body(f), "Failed to extract PowerPoint metadata: ")

\* PIL.ExifTags.TAGS.get(tag_id, tag_id), as text
ExifTagName(tag_id) ==
    IF tag_id = 271 THEN "Make"
    ELSE IF tag_id = 272 THEN "Model"
    ELSE ToString(tag_id)

\* for tag_id, value in exif_data.items(): metadata[f"exif_{tag}"] = str(value)
RECURSIVE image_exif_loop(_, _)
image_exif_loop(items, md) ==
    IF items = <<>> THEN md
    ELSE image_exif_loop(Tail(items),
             DictSet(md, <<"exif_", ExifTagName(Head(items).k)>>, PyStr(Head(items).v)))

image_body(f) ==
    LET o == Opened(f, "image") IN
    IF o.raised THEN o
    ELSE LET md1 == DictSet(EmptyDict, <<"format">>, f.format)
             md2 == DictSet(md1, <<"size">>,
                            Str(<<ToString(f.width), "x", ToString(f.height)>>))
             md3 == DictSet(md2, <<"mode">>, f.mode)
         IN  IF ~f.hasGetExif THEN Raised(AttributeError, md3)
             ELSE IF Truthy(f.exif) THEN Completed(image_exif_loop(f.exif.v, md3))
             ELSE Completed(md3)

extract_image_metadata(f) ==
    ExceptException(image_body(f), "Failed to extract image metadata: ")

\* msg.get(name, '')
MsgGet(headers, name) ==
    IF HasKey(headers, name) THEN DictGet(headers, name) ELSE Str(<<>>)

email_body(f) ==
    LET o == Opened(f, "eml") IN
    IF o.raised THEN o
    ELSE LET md1 == DictSet(EmptyDict, <<"subject">>, MsgGet(f.headers, <<"Subject">>))
             md2 == DictSet(md1, <<"from">>, MsgGet(f.headers, <<"From">>))
             md3 == DictSet(md2, <<"to">>, MsgGet(f.headers, <<"To">>))
             md4 == DictSet(md3, <<"date">>, MsgGet(f.headers, <<"Date">>))
             md5 == DictSet(md4, <<"cc">>, MsgGet(f.headers, <<"Cc">>))
             attachment_count ==
                 Cardinality({ i \in DOMAIN f.parts : f.parts[i] = Str(<<"attachment">>) })
         IN  Completed(DictSet(md5, <<"attachment_count">>, Int(attachment_count)))

extract_email_metadata(f) ==
    ExceptException(email_body(f), "Failed to extract email metadata: ")

csv_body(f) ==
    LET o == Opened(f, "csv") IN
    IF o.raised THEN o
    ELSE LET headers == IF f.rows # <<>> THEN List(Head(f.rows)) ELSE None
             row_count == IF f.rows # <<>> THEN Len(f.rows) - 1 ELSE 0
             md1 == DictSet(EmptyDict, <<"column_count">>,
                            IF Truthy(headers) THEN Int(Len(headers.v)) ELSE Int(0))
             md2 == DictSet(md1, <<"column_names">>,
                            IF Truthy(headers) THEN headers ELSE List(<<>>))
         IN  Completed(DictSet(md2, <<"row_count">>, Int(row_count)))

extract_csv_metadata(f) ==
    ExceptException(csv_body(f), "Failed to extract CSV metadata: ")

\* ------------------------------------------------------------------------
\* The dispatcher
\* ------------------------------------------------------------------------

Handlers ==
    { "extract_pdf_metadata", "extract_docx_metadata", "extract_xlsx_metadata",
      "extract_pptx_metadata", "extract_image_metadata", "extract_email_metadata",
      "extract_csv_metadata" }

\* The mutant of supported_extensions: the '.jpeg' entry is left out.
supported_extensions_no_jpeg ==
    << [ext |-> <<".", "p", "d", "f">>,      handler |-> "extract_pdf_metadata"],
       [ext |-> <<".", "d", "o", "c", "x">>, handler |-> "extract_docx_metadata"],
       [ext |-> <<".", "x", "l", "s", "x">>, handler |-> "extract_xlsx_metadata"],
       [ext |-> <<".", "p", "p", "t", "x">>, handler |-> "extract_pptx_metadata"],
       [ext |-> <<".", "j", "p", "g">>,      handler |-> "extract_image_metadata"],
       [ext |-> <<".", "p", "n", "g">>,      handler |-> "extract_image_metadata"],
       [ext |-> <<".", "e", "m", "l">>,      handler |-> "extract_email_metadata"],
       [ext |-> <<".", "c", "s", "v">>,      handler |-> "extract_csv_metadata"] >>

\* self.supported_extensions of __init__
supported_extensions ==
    << [ext |-> <<".", "p", "d", "f">>,      handler |-> "extract_pdf_metadata"],
       [ext |-> <<".", "d", "o", "c", "x">>, handler |-> "extract_docx_metadata"],
       [ext |-> <<".", "x", "l", "s", "x">>, handler |-> "extract_xlsx_metadata"],
       [ext |-> <<".", "p", "p", "t", "x">>, handler |-> "extract_pptx_metadata"],
       [ext |-> <<".", "j", "p", "g">>,      handler |-> "extract_image_metadata"],
       [ext |-> <<".", "j", "p", "e", "g">>, handler |-> "extract_image_metadata"],
       [ext |-> <<".", "p", "n", "g">>,      handler |-> "extract_image_metadata"],
       [ext |-> <<".", "e", "m", "l">>,      handler |-> "extract_email_metadata"],
       [ext |-> <<".", "c", "s", "v">>,      handler |-> "extract_csv_metadata"] >>

\* extension in self.supported_extensions
IsSupported(extension) ==
    \E i \in DOMAIN supported_extensions : supported_extensions[i].ext = extension

\* self.supported_extensions[extension]
HandlerFor(extension) ==
    supported_extensions[CHOOSE i \in DOMAIN supported_extensions :
                             supported_extensions[i].ext = extension].handler

\* handler(file_path), f being the file at file_path
CallHandler(handler, f) ==
    CASE handler = "extract_pdf_metadata"   -> extract_pdf_metadata(f)
      [] handler = "extract_docx_metadata"  -> extract_docx_metadata(f)
      [] handler = "extract_xlsx_metadata"  -> extract_xlsx_metadata(f)
      [] handler = "extract_pptx_metadata"  -> extract_pptx_metadata(f)
      [] handler = "extract_image_metadata" -> extract_image_metadata(f)
      [] handler = "extract_email_metadata" -> extract_email_metadata(f)
      [] handler = "extract_csv_metadata"   -> extract_csv_metadata(f)

\* extract_metadata(file_path), f being the file at file_path: the handler
\* calls it made, and what it returned.
extract_metadata(file_path, f) ==
    LET extension == str_lower(splitext_ext(file_path)) IN
    IF IsSupported(extension)
    THEN LET r == CallHandler(HandlerFor(extension), f)
         IN  [calls |-> << [handler |-> HandlerFor(extension), result |-> r] >>,
              result |-> r]
    ELSE [calls |-> <<>>,
          result |-> Return(ErrorResult(<<"Unsupported file type: ">> \o extension))]

\* ------------------------------------------------------------------------
\* json.dumps and the hasher
\* ------------------------------------------------------------------------

\* The keys the extractors produce, in the order Python sorts str.
KeyOrder ==
    << <<"Author">>, <<"Producer">>, <<"Title">>, <<"attachment_count">>,
       <<"author">>, <<"cc">>, <<"column_count">>, <<"column_names">>,
       <<"created">>, <<"creator">>, <<"date">>, <<"error">>,
       <<"exif_", "64000">>, <<"exif_", "Make">>, <<"exif_", "Model">>,
       <<"first_page_preview">>, <<"format">>, <<"from">>,
       <<"last_modified_by">>, <<"mode">>, <<"modified">>, <<"page_count">>,
       <<"paragraph_count">>, <<"row_count">>, <<"sheet_count">>,
       <<"sheet_names">>, <<"size">>, <<"slide_count">>, <<"subject">>,
       <<"text_preview">>, <<"title">>, <<"to">> >>

KeyRank(k) == CHOOSE i \in DOMAIN KeyOrder : KeyOrder[i] = k

\* The entries of d in the order sort_keys=True writes them.
SortedByKey(d) ==
    [i \in DOMAIN d |->
        CHOOSE e \in DictItems(d) :
            Cardinality({ x \in DictItems(d) : KeyRank(x.k) < KeyRank(e.k) }) = i - 1]

RECURSIVE JsonList(_)
JsonList(l) ==
    IF l = <<>> THEN <<>>
    ELSE <<"\"">> \o Head(l).v \o <<"\"">>
         \o (IF Tail(l) = <<>> THEN <<>> ELSE <<", ">> \o JsonList(Tail(l)))

\* The JSON text of one value
JsonValue(x) ==
    CASE x.t = "str"  -> <<"\"">> \o x.v \o <<"\"">>
      [] x.t = "int"  -> <<ToString(x.v)>>
      [] x.t = "null" -> <<"null">>
      [] x.t = "list" -> <<"[">> \o JsonList(x.v) \o <<"]">>

RECURSIVE JsonEntries(_)
JsonEntries(entries) ==
    IF entries = <<>> THEN <<>>
    ELSE <<"\"">> \o Head(entries).k \o <<"\"", ": ">> \o JsonValue(Head(entries).v)
         \o (IF Tail(entries) = <<>> THEN <<>> ELSE <<", ">> \o JsonEntries(Tail(entries)))

\* json.dumps(d): the entries in insertion order
json_dumps(d) == <<"{">> \o JsonEntries(d) \o <<"}">>

\* The mutant of json_dumps_sorted: the keys are written as inserted.
json_dumps_unsorted(d) == json_dumps(d)

\* json.dumps(d, sort_keys=True)
json_dumps_sorted(d) == <<"{">> \o JsonEntries(SortedByKey(d)) \o <<"}">>

\* hashlib.sha256(text.encode()).hexdigest(): SHA-256 taken as collision
\* free, the digest of a text stands for that text and no other.
sha256_hexdigest(text) == <<"sha256(">> \o text \o <<")">>

\* MetadataHasher.hash_metadata
hash_metadata(metadata) == sha256_hexdigest(json_dumps_sorted(metadata))

\* ------------------------------------------------------------------------
\* The database: the rows of document_metadata in rowid order, and the
\* AUTOINCREMENT counter (sqlite_sequence).
\* ------------------------------------------------------------------------

\* Two decimal digits, six decimal digits, one character per token
Digit(n) == ToString(n)

Digits2(n) == <<Digit((n \div 10) % 10), Digit(n % 10)>>

Digits6(n) ==
    <<Digit((n \div 100000) % 10), Digit((n \div 10000) % 10), Digit((n \div 1000) % 10),
      Digit((n \div 100) % 10), Digit((n \div 10) % 10), Digit(n % 10)>>

\* datetime.isoformat() of a reading [sec, usec] within one minute: the
\* fraction is written only when the microsecond is not zero.
isoformat(now) ==
    <<"2024-01-01T00:00:">> \o Digits2(now.sec)
    \o (IF now.usec = 0 THEN <<>> ELSE <<".">> \o Digits6(now.usec))

\* The order of the characters of a timestamp ('.' < '0' < ... < '9'); the
\* date and hour prefix is one token, equal in every timestamp.
CharOrder == <<"2024-01-01T00:00:", ".", "0", "1", "2", "3", "4", "5", "6", "7", "8", "9">>

CharRank(c) == CHOOSE i \in DOMAIN CharOrder : CharOrder[i] = c

\* a < b as SQLite compares TEXT: bytewise, a proper prefix first.
TextLess(a, b) ==
    \E i \in 1..(Len(b)) :
        /\ \A j \in 1..(i - 1) : j <= Len(a) /\ a[j] = b[j]
        /\ \/ i = Len(a) + 1
           \/ i <= Len(a) /\ CharRank(a[i]) < CharRank(b[i])

\* The mutant of create_tables: the table is created afresh.
create_tables_fresh(db) == [db EXCEPT !.rows = <<>>]

\* CREATE TABLE IF NOT EXISTS on the database __init__ has initialised
create_tables(db) == db

\* The mutant of NextId: the counter is not advanced past the first row.
NextIdStuck(db) == IF db.seq = 0 THEN 1 ELSE db.seq

\* The identity AUTOINCREMENT assigns to the next row
NextId(db) == db.seq + 1

\* The row save_metadata builds (lines 227-235)
NewRow(db, file_path, metadata, metadata_hash, now) ==
    [id |-> NextId(db),
     file_path |-> file_path,
     file_name |-> basename(file_path),
     metadata_hash |-> metadata_hash,
     timestamp |-> isoformat(now),
     metadata_json |-> json_dumps(metadata)]

\* str(e) of the sqlite3 error the failing call raises
SqliteError(fail) == <<"sqlite3 error in ", fail>>

\* The mutant of save_metadata: the INSERT is kept when commit() fails.
save_metadata_uncommitted(db, file_path, metadata, metadata_hash, now, fail) ==
    IF fail \in {"connect", "execute"}
    THEN [db |-> db, raised |-> TRUE, exc |-> SqliteError(fail), ret |-> 0]
    ELSE [db |-> [rows |-> Append(db.rows,
                              NewRow(db, file_path, metadata, metadata_hash, now)),
                  seq |-> NextId(db)],
          raised |-> fail # "none", exc |-> SqliteError(fail),
          ret |-> IF fail = "none" THEN NextId(db) ELSE 0]

\* save_metadata: fail names the sqlite3 call that raises ("none": no call
\* does).  Nothing is caught, and a row is stored only by commit().
save_metadata(db, file_path, metadata, metadata_hash, now, fail) ==
    IF fail # "none"
    THEN [db |-> db, raised |-> TRUE, exc |-> SqliteError(fail), ret |-> 0]
    ELSE [db |-> [rows |-> Append(db.rows,
                              NewRow(db, file_path, metadata, metadata_hash, now)),
                  seq |-> NextId(db)],
          raised |-> FALSE, exc |-> SqliteError(fail), ret |-> NextId(db)]

Permutations_(n) == { f \in [1..n -> 1..n] : \A i, j \in 1..n : i # j => f[i] # f[j] }

\* SELECT * ... ORDER BY timestamp DESC: every order of the rows in which
\* no row precedes one with a greater timestamp.  SQL leaves the order of
\* rows with equal timestamps open.
OrderByTimestampDesc(rows) ==
    { [i \in DOMAIN rows |-> rows[f[i]]] : f \in
        { g \in Permutations_(Len(rows)) :
            \A i, j \in DOMAIN rows :
                i < j => ~TextLess(rows[g[i]].timestamp, rows[g[j]].timestamp) } }

\* get_all_metadata: the lists it can return
get_all_metadata(db) == OrderByTimestampDesc(db.rows)

\* ------------------------------------------------------------------------
\* State
\* ------------------------------------------------------------------------

VARIABLES
    dispPath,           \* extract_metadata's argument
    dispFile,           \* the file at that path
    dispOut,            \* the call's handler calls and result, once made
    exHandler,          \* the extractor called directly
    exFile,             \* the file it is called on
    exOut,              \* what the call did, once made
    hashIn1,            \* a metadata dict
    hashIn2,            \* a dict built again, in another insertion order
    hashOut1,           \* hash_metadata(hashIn1), once called
    hashOut2,           \* hash_metadata(hashIn2), once called
    db,                 \* document_metadata.db
    clock,              \* the wall clock, in half seconds
    lastCall,           \* the last DatabaseManager call and its outcome
    current_file_path,  \* MetadataExtractorGUI.current_file_path (<<>>: None)
    current_metadata,   \* MetadataExtractorGUI.current_metadata
    file_path_var,      \* the entry's StringVar
    metadata_text,      \* the text of the metadata pane
    hash_var,           \* the hash entry's StringVar
    status_var,         \* the status bar's StringVar
    threads,            \* the extraction threads started, each with its position
    afterQueue,         \* the callbacks master.after(0, ...) has queued
    records_window      \* the records the last "View All Records" window lists

dispVars == <<dispPath, dispFile, dispOut>>

exVars == <<exHandler, exFile, exOut>>

hashVars == <<hashIn1, hashIn2, hashOut1, hashOut2>>

dbVars == <<db, clock, lastCall>>

guiVars ==
    <<current_file_path, current_metadata, file_path_var, metadata_text, hash_var,
      status_var, threads, afterQueue, records_window>>

vars == <<dispVars, exVars, hashVars, dbVars, guiVars>>

\* ------------------------------------------------------------------------
\* extract_metadata on any path, over any file
\* ------------------------------------------------------------------------

MaxStemLen == 2

Dirs == { <<>>, <<"d", ".", "x", "/">> }

Stems == SeqsUpTo({"f", "."}, MaxStemLen)

Suffixes ==
    { <<>>, <<".">>,
      <<".", "p", "d", "f">>, <<".", "P", "D", "F">>, <<".", "P", "d", "f">>,
      <<".", "d", "o", "c", "x">>, <<".", "D", "O", "C", "X">>,
      <<".", "x", "l", "s", "x">>, <<".", "p", "p", "t", "x">>,
      <<".", "j", "p", "g">>, <<".", "J", "P", "G">>,
      <<".", "j", "p", "e", "g">>, <<".", "J", "p", "e", "g">>,
      <<".", "p", "n", "g">>, <<".", "P", "N", "G">>,
      <<".", "e", "m", "l">>, <<".", "c", "s", "v">>, <<".", "C", "S", "V">>,
      <<".", "x", "y", "z">>, <<".", "X", "Y", "Z">>, <<".", "p", "d", "f", "x">>,
      <<".", "p", "d", "f", ".", "T", "x", "t">> }

Paths == { d \o st \o su : d \in Dirs, st \in Stems, su \in Suffixes }

\* One readable file of each format, and a path with no file.
WellFormed(fmt) == CHOOSE f \in AllFiles : f.fmt = fmt /\ f.exists /\ f.parses

DispFiles ==
    { WellFormed(fmt) : fmt \in {"pdf", "docx", "xlsx", "pptx", "image", "eml", "csv"} }
    \cup { MissingFile("pdf") }

NoCall == [done |-> FALSE, calls |-> <<>>, result |-> Return(EmptyDict)]

DispatchCall ==
    /\ ~dispOut.done
    /\ LET r == extract_metadata(dispPath, dispFile)
       IN  dispOut' = [done |-> TRUE, calls |-> r.calls, result |-> r.result]
    /\ UNCHANGED <<dispPath, dispFile>>

\* ------------------------------------------------------------------------
\* Each extractor on each file
\* ------------------------------------------------------------------------

ExtractCall ==
    /\ ~exOut.done
    /\ exOut' = [done |-> TRUE, calls |-> <<>>, result |-> CallHandler(exHandler, exFile)]
    /\ UNCHANGED <<exHandler, exFile>>

\* ------------------------------------------------------------------------
\* hash_metadata on a dict and on the same dict built again
\* ------------------------------------------------------------------------

MaxKeys == 3

HashKeys == { <<"title">>, <<"author">>, <<"page_count">>, <<"error">> }

HashValues == { Str(<<"x">>), Int(1) }

HashDicts ==
    { d \in SeqsUpTo([k : HashKeys, v : HashValues], MaxKeys) :
        \A i, j \in DOMAIN d : i # j => d[i].k # d[j].k }

Reorderings(d) == { [i \in DOMAIN d |-> d[f[i]]] : f \in Permutations_(Len(d)) }

\* The dict with the value of its first entry replaced
Revalued(d) ==
    IF d = <<>> THEN d
    ELSE [d EXCEPT ![1].v = IF d[1].v = Int(1) THEN Str(<<"x">>) ELSE Int(1)]

NoHash == [done |-> FALSE, h |-> <<>>]

\* The same entries inserted in another order, or with one value changed
Rebuild ==
    /\ ~hashOut2.done
    /\ hashIn2' \in Reorderings(hashIn1) \cup Reorderings(Revalued(hashIn1))
    /\ hashIn2' # hashIn2
    /\ UNCHANGED <<hashIn1, hashOut1, hashOut2>>

HashFirst ==
    /\ ~hashOut1.done
    /\ hashOut1' = [done |-> TRUE, h |-> hash_metadata(hashIn1)]
    /\ UNCHANGED <<hashIn1, hashIn2, hashOut2>>

HashSecond ==
    /\ ~hashOut2.done
    /\ hashOut2' = [done |-> TRUE, h |-> hash_metadata(hashIn2)]
    /\ UNCHANGED <<hashIn1, hashIn2, hashOut1>>

\* ------------------------------------------------------------------------
\* The DatabaseManager, called directly
\* ------------------------------------------------------------------------

MaxRows == 2

MaxClock == 1

\* datetime.datetime.now(), the clock counting half seconds
Now(c) == [sec |-> c \div 2, usec |-> (c % 2) * 500000]

PathA == <<"d", "/", "a", ".", "p", "d", "f">>

PathB == <<"b", ".", "c", "s", "v">>

MdA == << [k |-> <<"title">>, v |-> Str(<<"Report">>)], [k |-> <<"page_count">>, v |-> Int(1)] >>

MdB == << [k |-> <<"row_count">>, v |-> Int(0)] >>

SaveArgs ==
    { [file_path |-> PathA, metadata |-> MdA, metadata_hash |-> hash_metadata(MdA)],
      [file_path |-> PathB, metadata |-> MdA, metadata_hash |-> hash_metadata(MdA)],
      [file_path |-> PathB, metadata |-> MdB, metadata_hash |-> <<"h0">>] }

NoArgs == [file_path |-> <<>>, metadata |-> EmptyDict, metadata_hash |-> <<>>]

\* What is remembered of the call before the last one
Summary(c) == [op |-> c.op, raised |-> c.raised, ret |-> c.ret, args |-> c.args]

NoSummary == [op |-> "none", raised |-> FALSE, ret |-> 0, args |-> NoArgs]

\* fault: the sqlite3 call that failed during the call ("none": none did)
Called(op, fault, raised, exc, ret, args, listing) ==
    [op |-> op, fault |-> fault, raised |-> raised, exc |-> exc, ret |-> ret,
     args |-> args, listing |-> listing, prev |-> Summary(lastCall)]

NoDbCall ==
    [op |-> "none", fault |-> "none", raised |-> FALSE, exc |-> <<>>, ret |-> 0,
     args |-> NoArgs,
     listing |-> <<>>, prev |-> NoSummary]

\* The database __init__ leaves: create_tables() has run once.
NewDb == [rows |-> <<>>, seq |-> 0]

SqliteFailures == {"none", "connect", "execute", "commit"}

DbCreateTables ==
    /\ lastCall.op # "create_tables"
    /\ db' = create_tables(db)
    /\ lastCall' = Called("create_tables", "none", FALSE, <<>>, 0, NoArgs, <<>>)
    /\ UNCHANGED clock

DbSaveMetadata ==
    \E a \in SaveArgs, fail \in SqliteFailures :
        /\ Len(db.rows) < MaxRows
        /\ LET r == save_metadata(db, a.file_path, a.metadata, a.metadata_hash,
                                  Now(clock), fail)
           IN  /\ db' = r.db
               /\ lastCall' = Called("save_metadata", fail, r.raised, r.exc, r.ret, a, <<>>)
        /\ UNCHANGED clock

\* get_all_metadata: connect() or execute() raises, or a list is returned.
DbGetAllMetadata ==
    \E fail \in {"none", "connect", "execute"} :
        /\ lastCall.op # "get_all_metadata"
        /\ \E result \in (IF fail = "none" THEN get_all_metadata(db) ELSE { <<>> }) :
              lastCall' = Called("get_all_metadata", fail, fail # "none", SqliteError(fail),
                                 0, NoArgs, result)
        /\ UNCHANGED <<db, clock>>

\* Time passes.
ClockTick ==
    /\ clock < MaxClock
    /\ clock' = clock + 1
    /\ UNCHANGED <<db, lastCall>>

\* The wall clock is set back (a daylight-saving change, a time sync).
ClockSetBack ==
    /\ clock > 0
    /\ clock' \in 0..(clock - 1)
    /\ UNCHANGED <<db, lastCall>>

\* ------------------------------------------------------------------------
\* The front-end: the Tk main loop runs one handler at a time; each
\* extraction thread runs beside it.
\* ------------------------------------------------------------------------

MaxThreads == 2

GuiPaths == { PathA, PathB }

\* The files on disk behind the paths the dialog offers
FileAt(path) ==
    IF path = PathA
    THEN [fmt |-> "pdf", exists |-> TRUE, parses |-> TRUE,
          info |-> Dict(<< [k |-> <<"/", "Title">>, v |-> Str(<<"Report">>)] >>),
          pagesOk |-> TRUE, pages |-> << [ok |-> TRUE, text |-> SampleText] >>]
    ELSE [fmt |-> "csv", exists |-> TRUE, parses |-> TRUE,
          rows |-> << <<Str(<<"a">>), Str(<<"b">>), Str(<<"c">>)>>, <<Str(<<"a">>)>> >>]

RECURSIVE JsonEntriesIndent(_)
JsonEntriesIndent(entries) ==
    IF entries = <<>> THEN <<>>
    ELSE <<"\n    ", "\"">> \o Head(entries).k \o <<"\"", ": ">>
         \o JsonValue(Head(entries).v)
         \o (IF Tail(entries) = <<>> THEN <<"\n">>
             ELSE <<",">> \o JsonEntriesIndent(Tail(entries)))

\* json.dumps(d, indent=4), the items of a list kept on one line
json_dumps_indent(d) == <<"{">> \o JsonEntriesIndent(d) \o <<"}">>

\* browse_file: the dialog returns a path, or "" when it is cancelled.
BrowseFile ==
    \E file_path \in GuiPaths \cup { <<>> } :
        /\ IF file_path # <<>>
           THEN /\ file_path_var' = file_path
                /\ current_file_path' = file_path
                /\ status_var' = <<"Selected file: ">> \o basename(file_path)
           ELSE UNCHANGED <<file_path_var, current_file_path, status_var>>
        /\ UNCHANGED <<current_metadata, metadata_text, hash_var, threads, afterQueue,
                       records_window, dbVars>>

\* extract_metadata of the GUI: a thread is started on
\* _extract_metadata_thread, with no argument.
ExtractMetadata ==
    /\ IF current_file_path = <<>>
       THEN /\ status_var' = <<"Error: No file selected">>
            /\ UNCHANGED threads
       ELSE /\ Len(threads) < MaxThreads
            /\ status_var' = <<"Extracting metadata...">>
            /\ threads' = Append(threads, [pc |-> "start", file_path |-> <<>>,
                                           metadata |-> EmptyDict])
    /\ UNCHANGED <<current_file_path, current_metadata, file_path_var, metadata_text,
                   hash_var, afterQueue, records_window, dbVars>>

\* Line 360 in thread t: self.current_file_path is read and extracted from.
ThreadExtract(t) ==
    /\ threads[t].pc = "start"
    /\ threads' = [threads EXCEPT ![t] =
           [pc |-> "extracted", file_path |-> current_file_path,
            metadata |-> extract_metadata(current_file_path,
                                          FileAt(current_file_path)).result.value]]
    /\ UNCHANGED <<current_file_path, current_metadata, file_path_var, metadata_text,
                   hash_var, status_var, afterQueue, records_window, dbVars>>

\* Lines 363-366 in thread t: the hash is taken and the display update is
\* queued for the main loop.
ThreadPost(t) ==
    /\ threads[t].pc = "extracted"
    /\ threads' = [threads EXCEPT ![t] =
           [pc |-> "done", file_path |-> <<>>, metadata |-> EmptyDict]]
    /\ afterQueue' = Append(afterQueue,
           [metadata |-> threads[t].metadata,
            metadata_hash |-> hash_metadata(threads[t].metadata)])
    /\ UNCHANGED <<current_file_path, current_metadata, file_path_var, metadata_text,
                   hash_var, status_var, records_window, dbVars>>

\* The mutant of UpdateMetadataDisplay: hash_var is left as it was.
UpdateMetadataDisplayKeepsHash ==
    /\ afterQueue # <<>>
    /\ current_metadata' = Dict(Head(afterQueue).metadata)
    /\ metadata_text' = json_dumps_indent(Head(afterQueue).metadata)
    /\ hash_var' = hash_var
    /\ status_var' = <<"Metadata extraction complete">>
    /\ afterQueue' = Tail(afterQueue)
    /\ UNCHANGED <<current_file_path, file_path_var, threads, records_window, dbVars>>

\* The main loop runs the oldest queued _update_metadata_display.
UpdateMetadataDisplay ==
    /\ afterQueue # <<>>
    /\ current_metadata' = Dict(Head(afterQueue).metadata)
    /\ metadata_text' = json_dumps_indent(Head(afterQueue).metadata)
    /\ hash_var' = Head(afterQueue).metadata_hash
    /\ status_var' = <<"Metadata extraction complete">>
    /\ afterQueue' = Tail(afterQueue)
    /\ UNCHANGED <<current_file_path, file_path_var, threads, records_window, dbVars>>

\* save_to_database: one call of save_metadata, its error caught and shown.
SaveToDatabase ==
    /\ IF ~Truthy(current_metadata)
       THEN /\ status_var' = <<"Error: No metadata to save">>
            /\ UNCHANGED <<db, lastCall>>
       ELSE \E fail \in SqliteFailures :
            /\ Len(db.rows) < MaxRows
            /\ LET metadata_hash == hash_var
                   r == save_metadata(db, current_file_path, current_metadata.v,
                                      metadata_hash, Now(clock), fail)
               IN  /\ db' = r.db
                   /\ lastCall' = Called("save_metadata", fail, r.raised, r.exc, r.ret,
                          [file_path |-> current_file_path,
                           metadata |-> current_metadata.v,
                           metadata_hash |-> metadata_hash], <<>>)
                   /\ status_var' =
                          IF r.raised
                          THEN <<"Error saving to database: ">> \o r.exc
                          ELSE <<"Metadata saved to database with ID: ", ToString(r.ret)>>
    /\ UNCHANGED <<clock, current_file_path, current_metadata, file_path_var,
                   metadata_text, hash_var, threads, afterQueue, records_window>>

\* view_all_records: get_all_metadata raises out of the handler, or the
\* window lists (id, file_name, metadata_hash, timestamp) of each record.
ViewAllRecords ==
    \E fail \in {"none", "connect", "execute"} :
        /\ lastCall.op # "get_all_metadata"
        /\ \E records \in (IF fail = "none" THEN get_all_metadata(db) ELSE { <<>> }) :
              /\ lastCall' = Called("get_all_metadata", fail, fail # "none", SqliteError(fail),
                                    0, NoArgs, records)
              /\ records_window' =
                     IF fail # "none" THEN records_window
                     ELSE [i \in DOMAIN records |->
                              <<records[i].id, records[i].file_name,
                                records[i].metadata_hash, records[i].timestamp>>]
        /\ UNCHANGED <<db, clock, current_file_path, current_metadata, file_path_var,
                       metadata_text, hash_var, status_var, threads, afterQueue>>

\* ------------------------------------------------------------------------
\* Specifications
\* ------------------------------------------------------------------------

\* The application once run_application has built the window.
Init ==
    /\ dispPath = <<>> /\ dispFile = MissingFile("pdf") /\ dispOut = NoCall
    /\ exHandler = "extract_pdf_metadata" /\ exFile = MissingFile("pdf") /\ exOut = NoCall
    /\ hashIn1 = <<>> /\ hashIn2 = <<>> /\ hashOut1 = NoHash /\ hashOut2 = NoHash
    /\ db = NewDb /\ clock = 0 /\ lastCall = NoDbCall
    /\ current_file_path = <<>> /\ current_metadata = None /\ file_path_var = <<>>
    /\ metadata_text = <<>> /\ hash_var = <<>> /\ status_var = <<"Ready">>
    /\ threads = <<>> /\ afterQueue = <<>> /\ records_window = <<>>

Next ==
    \/ BrowseFile /\ UNCHANGED <<dispVars, exVars, hashVars>>
    \/ ExtractMetadata /\ UNCHANGED <<dispVars, exVars, hashVars>>
    \/ \E t \in DOMAIN threads : ThreadExtract(t) /\ UNCHANGED <<dispVars, exVars, hashVars>>
    \/ \E t \in DOMAIN threads : ThreadPost(t) /\ UNCHANGED <<dispVars, exVars, hashVars>>
    \/ UpdateMetadataDisplay /\ UNCHANGED <<dispVars, exVars, hashVars>>
    \/ SaveToDatabase /\ UNCHANGED <<dispVars, exVars, hashVars>>
    \/ ViewAllRecords /\ UNCHANGED <<dispVars, exVars, hashVars>>
    \/ ClockTick /\ UNCHANGED <<dispVars, exVars, hashVars, guiVars>>
    \/ ClockSetBack /\ UNCHANGED <<dispVars, exVars, hashVars, guiVars>>

Spec == Init /\ [][Next]_vars

\* extract_metadata called on one path.
InitDispatch ==
    /\ dispPath \in Paths /\ dispFile \in DispFiles /\ dispOut = NoCall
    /\ exHandler = "extract_pdf_metadata" /\ exFile = MissingFile("pdf") /\ exOut = NoCall
    /\ hashIn1 = <<>> /\ hashIn2 = <<>> /\ hashOut1 = NoHash /\ hashOut2 = NoHash
    /\ db = NewDb /\ clock = 0 /\ lastCall = NoDbCall
    /\ current_file_path = <<>> /\ current_metadata = None /\ file_path_var = <<>>
    /\ metadata_text = <<>> /\ hash_var = <<>> /\ status_var = <<"Ready">>
    /\ threads = <<>> /\ afterQueue = <<>> /\ records_window = <<>>

NextDispatch == DispatchCall /\ UNCHANGED <<exVars, hashVars, dbVars, guiVars>>

SpecDispatch == InitDispatch /\ [][NextDispatch]_vars

\* One extractor called on one file.
InitExtract ==
    /\ dispPath = <<>> /\ dispFile = MissingFile("pdf") /\ dispOut = NoCall
    /\ exHandler \in Handlers /\ exFile \in AllFiles /\ exOut = NoCall
    /\ hashIn1 = <<>> /\ hashIn2 = <<>> /\ hashOut1 = NoHash /\ hashOut2 = NoHash
    /\ db = NewDb /\ clock = 0 /\ lastCall = NoDbCall
    /\ current_file_path = <<>> /\ current_metadata = None /\ file_path_var = <<>>
    /\ metadata_text = <<>> /\ hash_var = <<>> /\ status_var = <<"Ready">>
    /\ threads = <<>> /\ afterQueue = <<>> /\ records_window = <<>>

NextExtract == ExtractCall /\ UNCHANGED <<dispVars, hashVars, dbVars, guiVars>>

SpecExtract == InitExtract /\ [][NextExtract]_vars

\* hash_metadata called on one dict and on that dict built again.
InitHash ==
    /\ dispPath = <<>> /\ dispFile = MissingFile("pdf") /\ dispOut = NoCall
    /\ exHandler = "extract_pdf_metadata" /\ exFile = MissingFile("pdf") /\ exOut = NoCall
    /\ hashIn1 \in HashDicts /\ hashIn2 = hashIn1 /\ hashOut1 = NoHash /\ hashOut2 = NoHash
    /\ db = NewDb /\ clock = 0 /\ lastCall = NoDbCall
    /\ current_file_path = <<>> /\ current_metadata = None /\ file_path_var = <<>>
    /\ metadata_text = <<>> /\ hash_var = <<>> /\ status_var = <<"Ready">>
    /\ threads = <<>> /\ afterQueue = <<>> /\ records_window = <<>>

NextHash ==
    \/ Rebuild /\ UNCHANGED <<dispVars, exVars, dbVars, guiVars>>
    \/ HashFirst /\ UNCHANGED <<dispVars, exVars, dbVars, guiVars>>
    \/ HashSecond /\ UNCHANGED <<dispVars, exVars, dbVars, guiVars>>

SpecHash == InitHash /\ [][NextHash]_vars

\* The DatabaseManager called in any order, the clock running beside it.
NextDb ==
    \/ DbCreateTables /\ UNCHANGED <<dispVars, exVars, hashVars, guiVars>>
    \/ DbSaveMetadata /\ UNCHANGED <<dispVars, exVars, hashVars, guiVars>>
    \/ DbGetAllMetadata /\ UNCHANGED <<dispVars, exVars, hashVars, guiVars>>
    \/ ClockTick /\ UNCHANGED <<dispVars, exVars, hashVars, guiVars>>
    \/ ClockSetBack /\ UNCHANGED <<dispVars, exVars, hashVars, guiVars>>

SpecDb == Init /\ [][NextDb]_vars

\* ------------------------------------------------------------------------
\* Properties
\* ------------------------------------------------------------------------

Rows == db.rows

SavedLast == lastCall.op = "save_metadata" /\ ~lastCall.raised

ListedAfterSave ==
    /\ lastCall.op = "get_all_metadata" /\ ~lastCall.raised
    /\ lastCall.prev.op = "save_metadata" /\ ~lastCall.prev.raised

\* C1: when save_metadata(file_path, metadata, h) has returned and
\* get_all_metadata() is the next call, the record just saved is the first
\* element of the list returned and its metadata_hash is h.
C1_SavedRecordListedFirst ==
    ListedAfterSave =>
        /\ lastCall.listing # <<>>
        /\ lastCall.listing[1].id = lastCall.prev.ret
        /\ lastCall.listing[1].metadata_hash = lastCall.prev.args.metadata_hash

\* C2 as stated: two saves of the same metadata and hash give two rows with
\* equal metadata_hash, different id and different timestamp, and each
\* save returns the id of its own row.
C2_EqualSavesDifferInIdAndTimestamp ==
    /\ \A i, j \in DOMAIN Rows :
           (i # j /\ Rows[i].metadata_json = Rows[j].metadata_json
                  /\ Rows[i].metadata_hash = Rows[j].metadata_hash)
           => (Rows[i].id # Rows[j].id /\ Rows[i].timestamp # Rows[j].timestamp)
    /\ SavedLast => Rows[Len(Rows)].id = lastCall.ret

\* C2, amended: every save stores one more row, no two rows share an id
\* (whether or not their metadata, hash and timestamp are equal), and the
\* save returns the id of the row that holds what it was given.
C2_EqualSavesDifferInId ==
    /\ \A i, j \in DOMAIN Rows : i # j => Rows[i].id # Rows[j].id
    /\ SavedLast =>
          /\ Rows # <<>>
          /\ Rows[Len(Rows)].id = lastCall.ret
          /\ Rows[Len(Rows)].file_path = lastCall.args.file_path
          /\ Rows[Len(Rows)].metadata_hash = lastCall.args.metadata_hash
          /\ Rows[Len(Rows)].metadata_json = json_dumps(lastCall.args.metadata)

\* Two saves of the same metadata and hash within one clock reading
C2_Witness ==
    /\ SavedLast
    /\ Len(Rows) = 2
    /\ Rows[1].metadata_json = Rows[2].metadata_json
    /\ Rows[1].metadata_hash = Rows[2].metadata_hash
    /\ Rows[1].timestamp = Rows[2].timestamp
    /\ Rows[1].id # Rows[2].id

\* C3: the stored records are append-only: whatever is called, every row
\* stays where it is with its six fields unchanged, and the row count
\* changes only by one more row on a save that succeeds.
C3_AppendOnly ==
    [][ /\ \A i \in DOMAIN db.rows : i \in DOMAIN db'.rows /\ db'.rows[i] = db.rows[i]
        /\ Len(db'.rows) \in { Len(db.rows), Len(db.rows) + 1 }
        /\ Len(db'.rows) = Len(db.rows) + 1
              => (lastCall'.op = "save_metadata" /\ ~lastCall'.raised)
        /\ \A i \in DOMAIN db'.rows :
              DOMAIN db'.rows[i] = {"id", "file_path", "file_name", "metadata_hash",
                                    "timestamp", "metadata_json"} ]_vars

\* create_tables has run again on a database that holds rows
C3_Witness == lastCall.op = "create_tables" /\ Len(Rows) = 2

\* C4: hash_metadata gives one hash for one mapping, whatever the order in
\* which its keys were inserted and whatever was hashed before.
C4_HashIgnoresInsertionOrder ==
    (hashOut1.done /\ hashOut2.done /\ DictItems(hashIn1) = DictItems(hashIn2))
        => hashOut1.h = hashOut2.h

\* One mapping of three keys hashed in two insertion orders
C4_Witness ==
    /\ hashOut1.done /\ hashOut2.done
    /\ DictItems(hashIn1) = DictItems(hashIn2)
    /\ hashIn1 # hashIn2
    /\ Len(hashIn1) = 3

\* The extensions and handlers the specification lists
ClaimedHandlers ==
    << [ext |-> <<".", "p", "d", "f">>,      handler |-> "extract_pdf_metadata"],
       [ext |-> <<".", "d", "o", "c", "x">>, handler |-> "extract_docx_metadata"],
       [ext |-> <<".", "x", "l", "s", "x">>, handler |-> "extract_xlsx_metadata"],
       [ext |-> <<".", "p", "p", "t", "x">>, handler |-> "extract_pptx_metadata"],
       [ext |-> <<".", "j", "p", "g">>,      handler |-> "extract_image_metadata"],
       [ext |-> <<".", "j", "p", "e", "g">>, handler |-> "extract_image_metadata"],
       [ext |-> <<".", "p", "n", "g">>,      handler |-> "extract_image_metadata"],
       [ext |-> <<".", "e", "m", "l">>,      handler |-> "extract_email_metadata"],
       [ext |-> <<".", "c", "s", "v">>,      handler |-> "extract_csv_metadata"] >>

SameLetter(a, b) ==
    \/ a = b
    \/ \E n \in DOMAIN UpperLetters :
          {a, b} = {UpperLetters[n], LowerLetters[n]}

SameIgnoringCase(a, b) ==
    Len(a) = Len(b) /\ \A i \in DOMAIN a : SameLetter(a[i], b[i])

HasNoUpperCase(s) ==
    \A i \in DOMAIN s : \A n \in DOMAIN UpperLetters : s[i] # UpperLetters[n]

\* s occurs in text
Contains(text, s) ==
    \E i \in 0..(Len(text) - Len(s)) : SubSeq(text, i + 1, i + Len(s)) = s

Unregistered(ext) ==
    \A n \in DOMAIN ClaimedHandlers : ~SameIgnoringCase(ext, ClaimedHandlers[n].ext)

IsErrorResult(r) ==
    r.kind = "return" /\ HasKey(r.value, <<"error">>)

ErrorMessage(r) == DictGet(r.value, <<"error">>).v

\* C5 as stated: for a path whose extension is not registered the result
\* is an error result whose message contains the extension as it is
\* written in the path, and no extractor is called.
C5_ErrorCarriesLiteralExtension ==
    (dispOut.done /\ Unregistered(splitext_ext(dispPath)))
        => /\ IsErrorResult(dispOut.result)
           /\ Contains(ErrorMessage(dispOut.result), splitext_ext(dispPath))
           /\ dispOut.calls = <<>>

\* C5, amended: the message ends with the extension in lower case, which
\* is the extension as written only when it has no upper-case letter.
C5_ErrorCarriesLoweredExtension ==
    (dispOut.done /\ Unregistered(splitext_ext(dispPath)))
        => /\ IsErrorResult(dispOut.result)
           /\ dispOut.calls = <<>>
           /\ \E e \in { SubSeq(ErrorMessage(dispOut.result), 2,
                                Len(ErrorMessage(dispOut.result))) } :
                 /\ ErrorMessage(dispOut.result) = <<"Unsupported file type: ">> \o e
                 /\ HasNoUpperCase(e)
                 /\ SameIgnoringCase(e, splitext_ext(dispPath))

\* A path ending in .XYZ has been dispatched
C5_Witness ==
    /\ dispOut.done
    /\ splitext_ext(dispPath) = <<".", "X", "Y", "Z">>
    /\ IsErrorResult(dispOut.result)

\* C6: for a path whose extension is, case ignored, one of the nine listed,
\* extract_metadata calls the one handler listed for it, once, and returns
\* what that handler returned.
C6_RegisteredExtensionDispatched ==
    dispOut.done =>
        \A n \in DOMAIN ClaimedHandlers :
            SameIgnoringCase(splitext_ext(dispPath), ClaimedHandlers[n].ext)
            => /\ Len(dispOut.calls) = 1
               /\ dispOut.calls[1].handler = ClaimedHandlers[n].handler
               /\ dispOut.calls[1].result = CallHandler(ClaimedHandlers[n].handler, dispFile)
               /\ dispOut.result = dispOut.calls[1].result

\* A path ending in .JPG has gone to the image extractor
C6_Witness ==
    /\ dispOut.done
    /\ splitext_ext(dispPath) = <<".", "J", "P", "G">>
    /\ Len(dispOut.calls) = 1
    /\ dispOut.calls[1].handler = "extract_image_metadata"

\* The format each extractor reads and the start of its error message
ClaimedFormats ==
    << [handler |-> "extract_pdf_metadata",   fmt |-> "pdf",
        prefix |-> "Failed to extract PDF metadata: "],
       [handler |-> "extract_docx_metadata",  fmt |-> "docx",
        prefix |-> "Failed to extract Word metadata: "],
       [handler |-> "extract_xlsx_metadata",  fmt |-> "xlsx",
        prefix |-> "Failed to extract Excel metadata: "],
       [handler |-> "extract_pptx_metadata",  fmt |-> "pptx",
        prefix |-> "Failed to extract PowerPoint metadata: "],
       [handler |-> "extract_image_metadata", fmt |-> "image",
        prefix |-> "Failed to extract image metadata: "],
       [handler |-> "extract_email_metadata", fmt |-> "eml",
        prefix |-> "Failed to extract email metadata: "],
       [handler |-> "extract_csv_metadata",   fmt |-> "csv",
        prefix |-> "Failed to extract CSV metadata: "] >>

Claimed(handler) ==
    ClaimedFormats[CHOOSE n \in DOMAIN ClaimedFormats : ClaimedFormats[n].handler = handler]

Readable(handler, f) == f.exists /\ f.parses /\ f.fmt = Claimed(handler).fmt

\* Opening or parsing f fails: no file, a file the reader rejects, a page
\* tree or page that cannot be read, an image class without _getexif.
OpenOrParseFails(handler, f) ==
    \/ ~Readable(handler, f)
    \/ f.fmt = "pdf" /\ (~f.pagesOk \/ (f.pages # <<>> /\ ~f.pages[1].ok))
    \/ f.fmt = "image" /\ ~f.hasGetExif

\* C7: no extractor raises; an error result has the single key "error" and
\* a message that starts by naming the format; and every failure to open or
\* parse the file gives such a result, never the dict filled so far.
C7_ExtractorsReturnErrorResult ==
    exOut.done =>
        /\ exOut.result.kind = "return"
        /\ HasKey(exOut.result.value, <<"error">>)
              => /\ Len(exOut.result.value) = 1
                 /\ ErrorMessage(exOut.result) # <<>>
                 /\ ErrorMessage(exOut.result)[1] = Claimed(exHandler).prefix
        /\ OpenOrParseFails(exHandler, exFile) => HasKey(exOut.result.value, <<"error">>)

\* The PDF extractor has failed on a page after it filled in the
\* document-info entries and the page count
C7_Witness ==
    /\ exOut.done
    /\ exHandler = "extract_pdf_metadata"
    /\ Readable(exHandler, exFile)
    /\ Truthy(exFile.info) /\ exFile.pages # <<>> /\ ~exFile.pages[1].ok
    /\ DictKeys(exOut.result.value) = { <<"error">> }

\* A readable file that only lacks optional content
LacksOptionalContent(handler, f) ==
    /\ Readable(handler, f)
    /\ \/ f.fmt = "pdf" /\ f.pagesOk
                        /\ (f.pages = <<>> \/ (f.pages[1].ok /\ ~Truthy(f.info)))
       \/ f.fmt = "docx" /\ f.paragraphs = <<>>
       \/ f.fmt = "image" /\ f.hasGetExif /\ ~Truthy(f.exif)
       \/ f.fmt = "csv" /\ f.rows = <<>>

\* C8: a readable file that only lacks optional content (a PDF with no
\* page or no document information, a Word document with no paragraph, an
\* image with no EXIF block, an empty CSV file) gives metadata, not an
\* error result.
C8_MissingOptionalContentIsNoError ==
    (exOut.done /\ LacksOptionalContent(exHandler, exFile))
        => ~HasKey(exOut.result.value, <<"error">>)

\* C9: no thread reads a variable that another thread can write: while an
\* extraction thread has yet to read current_file_path, the GUI thread does
\* not change it.
C9_NoWriteWhileThreadReads ==
    [][ (\E t \in DOMAIN threads : threads[t].pc = "start")
            => current_file_path' = current_file_path ]_vars

\* C10: a sqlite3 failure during save_metadata or get_all_metadata is
\* raised to the caller; the table is left as it was; and save_to_database
\* shows the error in the status bar, the save not made again.
C10_StorageFailureRaised ==
    [][ (lastCall' # lastCall /\ lastCall'.fault # "none")
            => /\ lastCall'.raised
               /\ db' = db
               /\ lastCall'.op = "save_metadata"
                     => status_var' = <<"Error saving to database: ">> \o lastCall'.exc
               /\ lastCall'.op = "get_all_metadata"
                     => records_window' = records_window ]_vars

\* commit() has failed in a save made after another row was stored
C10_Witness ==
    /\ lastCall.op = "save_metadata"
    /\ lastCall.fault = "commit"
    /\ status_var = <<"Error saving to database: ">> \o lastCall.exc
    /\ Len(Rows) = 1

\* The metadata extract_metadata gives for the file at a path
ExtractedFrom(path) == extract_metadata(path, FileAt(path)).result.value

\* C11: every stored row pairs a file with its own metadata: the row's
\* metadata_json is the serialisation of the metadata extracted from the
\* file at the row's file_path.
C11_RowPairsFileWithItsMetadata ==
    \A i \in DOMAIN Rows :
        Rows[i].metadata_json = json_dumps(ExtractedFrom(Rows[i].file_path))

\* The mappings the extractions of the application produce
ExtractedMappings == { ExtractedFrom(path) : path \in GuiPaths }

\* json.loads of line 449 on a stored metadata_json: the mapping whose
\* json.dumps text it is
json_loads(text) == CHOOSE m \in ExtractedMappings : json_dumps(m) = text

\* C12: whenever current_metadata is set, hash_var is
\* hash_metadata(current_metadata), and every stored row's metadata_hash
\* is hash_metadata of the mapping stored in its metadata_json.
C12_HashMatchesMetadata ==
    /\ Truthy(current_metadata) => hash_var = hash_metadata(current_metadata.v)
    /\ \A i \in DOMAIN Rows :
           /\ \E m \in ExtractedMappings : json_dumps(m) = Rows[i].metadata_json
           /\ Rows[i].metadata_hash = hash_metadata(json_loads(Rows[i].metadata_json))

\* Two workers have completed and both displays have run, on different
\* files, and the metadata of each has been saved
C12_Witness ==
    /\ Len(threads) = 2
    /\ \A t \in DOMAIN threads : threads[t].pc = "done"
    /\ afterQueue = <<>>
    /\ Truthy(current_metadata)
    /\ Len(Rows) = 2
    /\ Rows[1].metadata_hash # Rows[2].metadata_hash

====
